---- MODULE Spec2Model ----
(***************************************************************************)
(* State-machine model of src/src/core/message_bus.py: the MessageBus      *)
(* (handler registry, subscription table, per-channel listener tasks),     *)
(* the Redis pub/sub transport it talks to, and request_response with its  *)
(* single-use ResponseHandler.  Every asyncio suspension point (an await   *)
(* on the transport, on gather, on wait_for) ends a step; code between two *)
(* suspension points is one atomic action.  Beside the bus, the            *)
(* CrewCoordinator, the WebSocket ConnectionManager and the BaseMultiAgent *)
(* are modelled the same way, each with a specification of its own.        *)
(***************************************************************************)
EXTENDS Naturals, Integers, Sequences, FiniteSets, TLC

VARIABLES
    redis_client,     \* MessageBus.redis_client: "none" until connect() assigns it
    handlers,         \* MessageBus.handlers: handler_id -> handler object (0 = key absent)
    subscriptions,    \* MessageBus.subscriptions: channel -> list of handler ids (<<>> = key absent)
    listener_tasks,   \* MessageBus.listener_tasks: the asyncio tasks, in creation order
    unsub_tasks,      \* tasks made by unregister_handler, each to run unsubscribe(channel, id),
                      \* and as history whether subscribe(channel, id) was called since
    clock,            \* the reading datetime.now() gives
    calls,            \* number of request_response calls made so far
    rr,               \* caller -> the frame of its request_response call
    invoked,          \* history: handler_id -> message id -> number of handle_message calls
    eligible,         \* history: message id -> handler ids subscribed to its channel at some time since it was published
    stable,           \* history: message id -> handler ids registered and subscribed to its channel ever since it was published
    heard,            \* history: ids of the messages that reached the connection of at least one listener
    published,        \* history: message id -> channels it was published to
    refused,          \* history: ids of the messages whose publish raised
    last,             \* history: how the last API call ended: "ok" or the exception raised
    running,          \* MessageBus.running
    dc,               \* the frame of the disconnect() call: where it is, the tasks it gathers
    closes,           \* history: number of close() calls made on the client (none, one, more)
    closed_use,       \* history: a command was sent through a client after its close()
    wire,             \* history: the envelope of the application's last send_message or
                      \* publish call, with its channel, its wire form, what a listener
                      \* decodes from that, and the value send_message returned
    active_workflows, \* CrewCoordinator.active_workflows: workflow_id -> its WorkflowResult object (0 = key absent)
    workflow_results, \* the WorkflowResult objects, one per execute_workflow call: their status
    ew,               \* call -> the frame of that execute_workflow call
    seen,             \* history: what the last list_active_workflows and cancel_workflow calls returned
    active_connections,   \* ConnectionManager.active_connections: the list of sockets
    client_subscriptions, \* ConnectionManager.client_subscriptions: socket -> list of channels, or no key
    client_state,     \* WebSocket.client_state of each socket
    bc,               \* the frame of the broadcast() call: its channel, its place in the list
    sent,             \* history: the (socket, channel) pairs the current broadcast sent its message to
    unsub,            \* history: socket -> channels unsubscribe_client returned for, with no subscribe_client after
    current_tasks,    \* BaseMultiAgent.current_tasks: task_id -> n of the TaskResult it holds (0 = key absent)
    completed_tasks,  \* BaseMultiAgent.completed_tasks: the list of TaskResult
    metrics,          \* BaseMultiAgent.metrics: tasks_completed, tasks_failed
    et,               \* call -> the frame of that execute_task call, with its TaskResult
    execs             \* number of execute_task calls made since the initial state

bus == <<redis_client, handlers, subscriptions, listener_tasks, unsub_tasks>>

hist == <<invoked, eligible, stable, heard, published, refused>>

life == <<running, dc, closes, closed_use>>

coordinator == <<active_workflows, workflow_results, ew, seen>>

manager == <<active_connections, client_subscriptions, client_state, bc, sent, unsub>>

agent == <<current_tasks, completed_tasks, metrics, et, execs>>

app == <<coordinator, manager, agent>>

message_bus == <<bus, calls, rr, hist, last, life, wire>>

vars == <<bus, clock, calls, rr, hist, last, life, wire, app>>

-----------------------------------------------------------------------------
(* Bounds of the model *)

MaxClock == 1
MaxTasks == 2
MaxUnsubTasks == 1
MaxCalls == 2
MaxInbox == 2
NumUserMsgs == 2

-----------------------------------------------------------------------------
(* Names *)

None == "None"

Agents == {"a", "b"}

\* send_message, line 292
AgentChannel(id) == "agent_" \o id

\* request_response, line 323, and _handle_message_safely, line 250
ResponseChannel(sender_id) == "agent_" \o sender_id \o "_responses"

\* send_message, line 294
BroadcastChannel == "broadcast"

\* a channel name of the application's own choosing, outside the convention
TaskChannel == "Task"

Channels == {BroadcastChannel, TaskChannel} \cup {AgentChannel(a) : a \in Agents}
              \cup {ResponseChannel(a) : a \in Agents}

Now == 0..MaxClock

\* Message.id's default_factory, line 33
MessageId(now) == "msg_" \o ToString(now)

\* request_response, line 320
CorrelationId(now) == "req_" \o ToString(now)

\* ResponseHandler.__init__, line 363
ResponseHandlerId(correlation_id) == "response_handler_" \o correlation_id

UserHandlers == {"h1", "h2", "h3"}

ResponseHandlers == {ResponseHandlerId(CorrelationId(t)) : t \in Now}

HandlerIds == UserHandlers \cup ResponseHandlers

UserMsgId(i) == "m" \o ToString(i)

UserMsgIds == {UserMsgId(i) : i \in 1..NumUserMsgs}

MsgIds == UserMsgIds \cup {MessageId(t) : t \in Now}

\* the coroutines that call request_response: "a" and, concurrently with it, "a_2"
Callers == {"a", "a_2"}

\* request_response's sender_id argument: both callers send as agent a
Sender(p) == "a"

\* A handler object.  A user handler is one object per id; every request_response
\* call constructs a fresh ResponseHandler, told apart by the call's serial number
\* (1, 2, ...).
UserObject == -1

\* What a user handler's handle_message does (MessageHandler is subclassed by the
\* embedding application): return None, raise, or return a response envelope.
HandlerKind(h) == IF h = "h2" THEN "raise" ELSE IF h = "h3" THEN "reply" ELSE "ok"

Message(id, sender_id, correlation_id) ==
    [id |-> id, sender_id |-> sender_id, correlation_id |-> correlation_id]

NoMsg == Message(None, None, None)

\* message.json(), line 116: the wire form is the list of the fields
Encode(m) == <<m.id, m.sender_id, m.correlation_id>>

\* json.loads and Message(**msg_data), lines 211-212, raise on any other payload
Decodable(raw) == Len(raw) = Len(Encode(NoMsg))

\* payloads another client of the store publishes: text that is not JSON, and JSON
\* that lacks required fields of Message
Malformed == {<<"{not json">>, <<"m1", "a">>}

Decode(raw) == Message(raw[1], raw[2], raw[3])

-----------------------------------------------------------------------------
(* The envelope with all its fields: class Message, lines 31-41 *)

\* class MessageType, lines 21-28: the members, by name
MessageTypes == {"TASK_REQUEST", "TASK_UPDATE"}

\* the value of a member
TypeValue(member) == IF member = "TASK_REQUEST" THEN "task_request" ELSE "task_update"

\* MessageType(value): the member that has the value
TypeOfValue(value) == CHOOSE member \in MessageTypes : TypeValue(member) = value

\* a datetime value
Datetime(t) == "datetime(" \o ToString(t) \o ")"

\* Python values a payload holds (Dict[str, Any] takes any): an int, a str, a
\* datetime, a tuple, a list; each with its repr
PyNone == <<"NoneType", "None">>

PyInt(n) == <<"int", ToString(n)>>

PyStr(s) == <<"str", s>>

PyDatetime(t) == <<"datetime", t>>

PyTuple(x) == <<"tuple", x>>

PyList(x) == <<"list", x>>

\* payloads of JSON's own types, and payloads of Python's further types
JsonPayloads == {PyInt(50), PyStr("x"), PyList("1, 2")}

PythonPayloads == {PyDatetime(Datetime(0)), PyTuple("1, 2")}

Payloads == JsonPayloads \cup PythonPayloads

\* priority: Field(default=5, ge=1, le=10), line 40
Priorities == {1, 5}

Envelope(id, type, sender_id, recipient_id, payload, timestamp, correlation_id, priority, expires_at) ==
    [id |-> id, type |-> type, sender_id |-> sender_id, recipient_id |-> recipient_id,
     payload |-> payload, timestamp |-> timestamp, correlation_id |-> correlation_id,
     priority |-> priority, expires_at |-> expires_at]

NoEnvelope == Envelope(None, None, None, None, PyNone, None, None, 0, None)

\* send_message, lines 280-287: id and timestamp are the defaults of lines 33 and 38,
\* expires_at the default of line 41
NewMessage(now, sender_id, recipient_id, message_type, payload, correlation_id, priority) ==
    Envelope(MessageId(now), message_type, sender_id, recipient_id, payload,
             Datetime(now), correlation_id, priority, None)

\* the fields of an envelope that the bus itself reads
Header(e) == Message(e.id, e.sender_id, e.correlation_id)

\* JSON values
JNull == <<"null", "null">>

JString(s) == <<"string", s>>

JNumber(n) == <<"number", n>>

JArray(x) == <<"array", x>>

\* datetime.isoformat() and its inverse, pydantic's parsing of a datetime field
IsoFormat(d) == LET t == CHOOSE u \in Now : Datetime(u) = d IN "T" \o ToString(t)

FromIso(s) == CHOOSE d \in {Datetime(t) : t \in Now} : IsoFormat(d) = s

\* the digits of an int and the int of the digits
Digits(n) == ToString(n)

IntOf(s) == CHOOSE n \in 0..10 : Digits(n) = s

\* json.dumps with pydantic's encoder as default: a datetime becomes its ISO
\* string, a tuple an array like a list
JsonOfPy(v) ==
    IF v[1] = "int" THEN JNumber(v[2])
    ELSE IF v[1] = "str" THEN JString(v[2])
    ELSE IF v[1] = "datetime" THEN JString(IsoFormat(v[2]))
    ELSE JArray(v[2])

\* json.loads: a number is an int, a string a str, an array a list
PyOfJson(j) ==
    IF j[1] = "number" THEN <<"int", j[2]>>
    ELSE IF j[1] = "string" THEN PyStr(j[2])
    ELSE PyList(j[2])

JOptional(x, j) == IF x = None THEN JNull ELSE j

\* message.json(), line 116, field by field
Json(e) ==
    [id |-> JString(e.id),
     type |-> JString(TypeValue(e.type)),
     sender_id |-> JString(e.sender_id),
     recipient_id |-> JOptional(e.recipient_id, JString(e.recipient_id)),
     payload |-> JsonOfPy(e.payload),
     timestamp |-> JString(IsoFormat(e.timestamp)),
     correlation_id |-> JOptional(e.correlation_id, JString(e.correlation_id)),
     priority |-> JNumber(Digits(e.priority)),
     expires_at |-> JOptional(e.expires_at, JString(IsoFormat(e.expires_at)))]

POptional(j, x) == IF j = JNull THEN None ELSE x

\* json.loads and Message(**msg_data), lines 211-212: each field validated to its
\* declared type, the payload's values taken as json.loads made them
Parse(raw) ==
    Envelope(raw.id[2],
             TypeOfValue(raw.type[2]),
             raw.sender_id[2],
             POptional(raw.recipient_id, raw.recipient_id[2]),
             PyOfJson(raw.payload),
             FromIso(raw.timestamp[2]),
             POptional(raw.correlation_id, raw.correlation_id[2]),
             IntOf(raw.priority[2]),
             POptional(raw.expires_at, FromIso(raw.expires_at[2])))

\* what the model remembers of the last envelope: the envelope, the channel
\* send_message chose, its wire form, a listener's decoding, send_message's return
NoRaw == [f \in DOMAIN NoEnvelope |-> JNull]

NoWire == [envelope |-> NoEnvelope, channel |-> None, raw |-> NoRaw, decoded |-> NoEnvelope,
           returned |-> None]

\* disconnect() not running
NoDisconnect == [pc |-> "idle", awaited |-> {}, again |-> FALSE]

-----------------------------------------------------------------------------
(* Lists, tasks and the transport *)

RECURSIVE Remove(_, _)
\* list.remove(x): the list without the first occurrence of x
Remove(s, x) ==
    IF s = <<>> THEN <<>>
    ELSE IF Head(s) = x THEN Tail(s)
    ELSE <<Head(s)>> \o Remove(Tail(s), x)

InList(s, x) == \E i \in 1..Len(s) : s[i] = x

RECURSIVE SeqOf(_)
SeqOf(S) == IF S = {} THEN <<>>
            ELSE LET x == CHOOSE y \in S : TRUE IN <<x>> \o SeqOf(S \ {x})

\* asyncio.create_task(self._listen_to_channel(channel)), line 149: where the
\* task is, the payloads its pubsub connection holds, the envelope it fans out,
\* the handler tasks of the fan-out that have not run, a cancellation requested
\* and not yet raised in the task, whether the server holds its subscription, and
\* as history whether it has met a payload it could not decode
Task(channel) ==
    [channel |-> channel, st |-> "created", inbox |-> <<>>, cur |-> NoMsg,
     pend |-> {}, cancel |-> FALSE, sub |-> FALSE, bad |-> FALSE]

\* task.done()
Done(t) == t.st = "done"

\* the listener's pubsub connection is subscribed at the Redis server and the
\* task reads it
Attached(t) == t.st \in {"listening", "gathering"}

\* The words str(task) is made of:
\* <Task pending name='Task-1' coro=<MessageBus._listen_to_channel() running at ...> ...>
\* The coroutine's arguments, the channel among them, are not part of it.
TaskStrWords == {"Task", "pending", "name", "coro", "MessageBus", "_listen_to_channel",
                 "running", "wait_for", "Future", "cb"}

\* channel in str(task), line 170
ChannelInTaskStr(channel, t) == channel \in TaskStrWords

\* redis PUBLISH: the payload reaches every pubsub connection subscribed right now
Deliver(tasks, channel, raw) ==
    [i \in 1..Len(tasks) |->
        IF tasks[i].channel = channel /\ Attached(tasks[i])
        THEN [tasks[i] EXCEPT !.inbox = Append(@, raw)]
        ELSE tasks[i]]

\* the inbox bound: a publish is left out when it would overfill a connection
Room(tasks, channel) ==
    \A i \in 1..Len(tasks) :
        tasks[i].channel = channel /\ Attached(tasks[i]) => Len(tasks[i].inbox) < MaxInbox

Subscribers(subs, channel) == {subs[channel][i] : i \in 1..Len(subs[channel])}

-----------------------------------------------------------------------------
(* The application objects beside the bus: the CrewCoordinator of                *)
(* src/src/orchestration/crew_coordinator.py, the ConnectionManager of           *)
(* src/src/api/websocket.py and the BaseMultiAgent of src/src/core/base_agent.py *)

\* Bounds
MaxSubscribed == 2
MaxExec == 3

\* the execute_workflow calls and the execute_task calls that may be in progress
WorkflowCalls == {1, 2}
TaskCalls == {1, 2}

\* workflow_id = f"workflow_{datetime.now()...}"
WorkflowId(t) == <<"workflow", t>>

WorkflowIds == {WorkflowId(t) : t \in Now}

\* The frame of an execute_workflow call
NoWorkflowId == <<"none", 0>>

NoWorkflowCall == [pc |-> "idle", workflow_id |-> NoWorkflowId]

\* What the last list_active_workflows call returned (the workflow_result objects),
\* the id the last cancel_workflow call was given, whether a call was executing
\* that workflow then, and what it returned
NothingSeen == [active |-> {}, workflow_id |-> NoWorkflowId, executing |-> FALSE, result |-> FALSE]

\* CrewCoordinator.__init__
InitCoordinator ==
    /\ active_workflows = [w \in WorkflowIds |-> 0]
    /\ workflow_results = [p \in WorkflowCalls |-> "none"]
    /\ ew = [p \in WorkflowCalls |-> NoWorkflowCall]
    /\ seen = NothingSeen

Sockets == {"w1", "w2"}

General == "general"

WsChannels == {General, "task_updates"}

\* A value of client_subscriptions: whether the socket is a key, and its list
NoKey == [key |-> FALSE, list |-> <<>>]

SubscriptionList(channels) == [key |-> TRUE, list |-> channels]

\* The frame of a broadcast call: its channel, the position of the list iterator,
\* its list of connections to clean up
NoBroadcast == [pc |-> "idle", channel |-> None, i |-> 0, disconnected |-> <<>>]

\* ConnectionManager.__init__; no socket has been accepted
InitManager ==
    /\ active_connections = <<>>
    /\ client_subscriptions = [ws \in Sockets |-> NoKey]
    /\ client_state = [ws \in Sockets |-> "connecting"]
    /\ bc = NoBroadcast
    /\ sent = {}
    /\ unsub = [ws \in Sockets |-> {}]

TaskIds == {"t1", "t2"}

\* completed_tasks is cut to its last HistoryKeep entries when it exceeds HistoryLimit
HistoryLimit == 100
HistoryKeep == 50

\* A TaskResult object: its task_id and status, and n, the call that made it, which
\* tells two objects of equal fields apart
TaskResult(task_id, status, n) == [task_id |-> task_id, status |-> status, n |-> n]

NoTaskResult == TaskResult(None, None, 0)

\* The frame of an execute_task call, with its task_result and whether it raised
NoTaskCall == [pc |-> "idle", task_result |-> NoTaskResult, raised |-> FALSE]

\* BaseMultiAgent.__init__ (tasks_completed = tasks_failed = 0, no task)
InitAgentObject ==
    /\ current_tasks = [t \in TaskIds |-> 0]
    /\ completed_tasks = <<>>
    /\ metrics = [tasks_completed |-> 0, tasks_failed |-> 0]
    /\ et = [p \in TaskCalls |-> NoTaskCall]
    /\ execs = 0

InitApp == InitCoordinator /\ InitManager /\ InitAgentObject

-----------------------------------------------------------------------------
(* Initial state: MessageBus.__init__, lines 59-65 *)

\* The frame of a request_response call: where it is, its correlation_id, its
\* ResponseHandler object (event, response), how it ended; and as history what the
\* registry and the table were when it was called, whether it got to wait, and
\* whether a reply carrying its correlation_id was published while it waited.
NoFrame == [pc |-> "idle", recipient_id |-> None, correlation_id |-> None, obj |-> 0,
            event |-> FALSE, response |-> NoMsg, outcome |-> "pending", result |-> NoMsg,
            error |-> None, pre_handlers |-> <<>>, pre_subscriptions |-> <<>>,
            waited |-> FALSE, replied |-> FALSE]

InitBus ==
    /\ redis_client = "none"
    /\ handlers = [h \in HandlerIds |-> 0]
    /\ subscriptions = [c \in Channels |-> <<>>]
    /\ listener_tasks = <<>>
    /\ unsub_tasks = <<>>
    /\ clock = 0
    /\ calls = 0
    /\ rr = [p \in Callers |-> NoFrame]
    /\ invoked = [h \in HandlerIds |-> [m \in MsgIds |-> 0]]
    /\ eligible = [m \in MsgIds |-> {}]
    /\ stable = [m \in MsgIds |-> {}]
    /\ heard = {}
    /\ published = [m \in MsgIds |-> {}]
    /\ refused = {}
    /\ last = "ok"
    /\ running = FALSE
    /\ dc = NoDisconnect
    /\ closes = 0
    /\ closed_use = FALSE

Init == InitBus /\ InitApp /\ wire = NoWire

-----------------------------------------------------------------------------
(* register_handler, subscribe, unsubscribe, unregister_handler *)

\* A registry check that lets every id pass
AnyHandler(regs, handler_id) == TRUE

\* handler_id in self.handlers
Registered(regs, handler_id) == regs[handler_id] # 0

\* subscribe, lines 141-145: the table after the call
Subscribed(subs, channel, handler_id) ==
    IF InList(subs[channel], handler_id) THEN subs
    ELSE [subs EXCEPT ![channel] = Append(@, handler_id)]

\* subscribe, lines 144-148: the handler is appended and is the only one of the channel
FirstSubscription(subs, channel, handler_id) ==
    /\ ~InList(subs[channel], handler_id)
    /\ Len(Append(subs[channel], handler_id)) = 1

\* subscribe, lines 148-150: the task list after the call
TasksAfterSubscribe(subs, tasks, channel, handler_id) ==
    IF FirstSubscription(subs, channel, handler_id)
    THEN Append(tasks, Task(channel))
    ELSE tasks

\* unsubscribe, lines 162-167: the table after the call (the key of an emptied list is deleted)
Unsubscribed(subs, channel, handler_id) ==
    IF InList(subs[channel], handler_id)
    THEN [subs EXCEPT ![channel] = Remove(@, handler_id)]
    ELSE subs

\* unsubscribe, lines 169-172: cancel the first task that is not done and whose
\* str() contains the channel name, then break
CancelMatching(tasks, channel) ==
    LET hits == {i \in 1..Len(tasks) :
                    ~Done(tasks[i]) /\ ChannelInTaskStr(channel, tasks[i])}
    IN  IF hits = {} THEN tasks
        ELSE LET first == CHOOSE i \in hits : \A j \in hits : i <= j
             IN  [tasks EXCEPT ![first].cancel = TRUE]

\* unsubscribe, lines 162-172: the task list after the call
TasksAfterUnsubscribe(subs, tasks, channel, handler_id) ==
    IF InList(subs[channel], handler_id) /\ Remove(subs[channel], handler_id) = <<>>
    THEN CancelMatching(tasks, channel)
    ELSE tasks

\* unregister_handler, lines 185-191: one unsubscribe task per channel listing the handler
UnsubscribeTasksFor(subs, handler_id) ==
    SeqOf({<<c, handler_id, FALSE>> : c \in {d \in Channels : InList(subs[d], handler_id)}})

\* history: subscribe(channel, handler_id) succeeds while tasks of unregister_handler
\* have not run
Resubscribed(tasks, channel, handler_id) ==
    [k \in 1..Len(tasks) |->
        IF tasks[k][1] = channel /\ tasks[k][2] = handler_id
        THEN <<channel, handler_id, TRUE>> ELSE tasks[k]]

\* history: unsubscribe(channel, handler_id) or unregister_handler(handler_id) is
\* called while tasks of an earlier unregister_handler have not run
Released(tasks, channels, handler_id) ==
    [k \in 1..Len(tasks) |->
        IF tasks[k][1] \in channels /\ tasks[k][2] = handler_id
        THEN <<tasks[k][1], handler_id, FALSE>> ELSE tasks[k]]

\* unregister_handler, line 193
Unregistered(regs, handler_id) == [regs EXCEPT ![handler_id] = 0]

\* history: a channel gains a subscriber after a message was published to it
NoteSubscriber(elig, channel, handler_id) ==
    [m \in MsgIds |-> IF channel \in published[m] THEN elig[m] \cup {handler_id} ELSE elig[m]]

\* history: a handler leaves a channel after a message was published to it
NoteUnsubscribed(stab, channel, handler_id) ==
    [m \in MsgIds |-> IF channel \in published[m] THEN stab[m] \ {handler_id} ELSE stab[m]]

\* history: a handler leaves the registry
NoteUnregistered(stab, handler_id) == [m \in MsgIds |-> stab[m] \ {handler_id}]

\* register_handler, lines 176-179
RegisterHandler(h) ==
    /\ handlers' = [handlers EXCEPT ![h] = UserObject]
    /\ last' = "ok"
    /\ UNCHANGED <<app, redis_client, subscriptions, listener_tasks, unsub_tasks, clock, life, wire,
                   calls, rr, hist>>

\* subscribe, lines 130-152
Subscribe(channel, h) ==
    IF ~Registered(handlers, h)
    THEN /\ last' = "ValueError"
         /\ UNCHANGED <<app, bus, clock, life, wire, calls, rr, hist>>
    ELSE /\ FirstSubscription(subscriptions, channel, h) => Len(listener_tasks) < MaxTasks
         /\ subscriptions' = Subscribed(subscriptions, channel, h)
         /\ listener_tasks' = TasksAfterSubscribe(subscriptions, listener_tasks, channel, h)
         /\ unsub_tasks' = Resubscribed(unsub_tasks, channel, h)
         /\ eligible' = NoteSubscriber(eligible, channel, h)
         /\ last' = "ok"
         /\ UNCHANGED <<app, redis_client, handlers, clock, life, wire, calls, rr, invoked,
                        stable, heard, published, refused>>

\* unsubscribe, lines 154-174
Unsubscribe(channel, h) ==
    /\ subscriptions' = Unsubscribed(subscriptions, channel, h)
    /\ listener_tasks' = TasksAfterUnsubscribe(subscriptions, listener_tasks, channel, h)
    /\ unsub_tasks' = Released(unsub_tasks, {channel}, h)
    /\ stable' = NoteUnsubscribed(stable, channel, h)
    /\ last' = "ok"
    /\ UNCHANGED <<app, redis_client, handlers, clock, life, wire, calls, rr, invoked,
                   eligible, heard, published, refused>>

\* unregister_handler, lines 181-194
UnregisterHandler(h) ==
    /\ Len(unsub_tasks) + Len(UnsubscribeTasksFor(subscriptions, h)) <= MaxUnsubTasks
    /\ IF Registered(handlers, h)
       THEN /\ unsub_tasks' = Released(unsub_tasks, Channels, h)
                                    \o UnsubscribeTasksFor(subscriptions, h)
            /\ handlers' = Unregistered(handlers, h)
       ELSE UNCHANGED <<app, unsub_tasks, handlers>>
    /\ stable' = NoteUnregistered(stable, h)
    /\ last' = "ok"
    /\ UNCHANGED <<app, redis_client, subscriptions, listener_tasks, clock, life, wire, calls, rr, invoked,
                   eligible, heard, published, refused>>

\* the event loop runs the oldest task that unregister_handler created, line 191
RunUnsubscribeTask ==
    /\ unsub_tasks # <<>>
    /\ LET channel == Head(unsub_tasks)[1]
           h == Head(unsub_tasks)[2]
       IN  /\ subscriptions' = Unsubscribed(subscriptions, channel, h)
           /\ listener_tasks' = TasksAfterUnsubscribe(subscriptions, listener_tasks, channel, h)
           /\ stable' = NoteUnsubscribed(stable, channel, h)
    /\ unsub_tasks' = Tail(unsub_tasks)
    /\ UNCHANGED <<app, redis_client, handlers, clock, life, wire, calls, rr, invoked, eligible, heard,
                   published, refused, last>>

-----------------------------------------------------------------------------
(* connect, publish, send_message *)

\* connect, lines 67-79, when the store answers the ping
Connect ==
    /\ redis_client' = "open"
    /\ closes' = 0
    /\ last' = "ok"
    /\ UNCHANGED <<app, handlers, subscriptions, listener_tasks, unsub_tasks, clock, running,
                   dc, closed_use, wire, calls, rr, hist>>

\* connect, lines 67-83, when the store does not answer: the client that line 70
\* assigned stays, the exception of the ping is logged and raised again
ConnectFails ==
    /\ redis_client # "open"
    /\ redis_client' = "failed"
    /\ closes' = 0
    /\ last' = "ConnectionError"
    /\ UNCHANGED <<app, handlers, subscriptions, listener_tasks, unsub_tasks, clock, running,
                   dc, closed_use, wire, calls, rr, hist>>

\* lines 90-91: task.cancel() on every task of the list; a task that is done stays as it is
CancelAll(tasks) ==
    [i \in 1..Len(tasks) |->
        IF Done(tasks[i]) THEN tasks[i] ELSE [tasks[i] EXCEPT !.cancel = TRUE]]

\* lines 97-98: close() is called on whatever client there is
Closed(client) == IF client = "none" THEN "none" ELSE "closed"

CloseCount(client, n) == IF client = "none" THEN n ELSE IF n < 2 THEN n + 1 ELSE n

\* the bus was never connected, or disconnect() has completed since the last connect()
Disconnected(client) == client \in {"none", "closed"}

\* disconnect, lines 85-94: up to the await of gather, or through to close() when
\* the task list is empty
DisconnectCall ==
    /\ dc.pc = "idle"
    /\ running' = FALSE
    /\ listener_tasks' = CancelAll(listener_tasks)
    /\ IF listener_tasks # <<>>
       THEN /\ dc' = [pc |-> "gathering", awaited |-> 1..Len(listener_tasks),
                      again |-> Disconnected(redis_client)]
            /\ UNCHANGED <<app, redis_client, closes>>
       ELSE /\ dc' = NoDisconnect
            /\ redis_client' = Closed(redis_client)
            /\ closes' = CloseCount(redis_client, closes)
    /\ last' = "ok"
    /\ UNCHANGED <<app, handlers, subscriptions, unsub_tasks, clock, closed_use, wire, calls,
                   rr, hist>>

\* disconnect, lines 93-99: gather returns when every task it was given has ended,
\* then close()
DisconnectGathered ==
    /\ dc.pc = "gathering"
    /\ \A i \in dc.awaited : Done(listener_tasks[i])
    /\ dc' = NoDisconnect
    /\ redis_client' = Closed(redis_client)
    /\ closes' = CloseCount(redis_client, closes)
    /\ UNCHANGED <<app, handlers, subscriptions, listener_tasks, unsub_tasks, clock, running,
                   closed_use, wire, calls, rr, hist, last>>

\* A connection check that never fails
AlwaysConnected(client) == FALSE

\* publish, line 112: not self.redis_client
NotConnected(client) == client = "none"

NotePublished(pub, channel, m) == [pub EXCEPT ![m.id] = @ \cup {channel}]

NoteEligible(elig, channel, m) ==
    [elig EXCEPT ![m.id] = @ \cup Subscribers(subscriptions, channel)]

NoteStable(stab, channel, m) ==
    [stab EXCEPT ![m.id] = {h \in Subscribers(subscriptions, channel) : handlers[h] # 0}]

NoteHeard(hrd, tasks, channel, m) ==
    IF \E i \in 1..Len(tasks) : tasks[i].channel = channel /\ Attached(tasks[i])
    THEN hrd \cup {m.id} ELSE hrd

\* history of a publication
Published(tasks, channel, m) ==
    /\ published' = NotePublished(published, channel, m)
    /\ eligible' = NoteEligible(eligible, channel, m)
    /\ stable' = NoteStable(stable, channel, m)
    /\ heard' = NoteHeard(heard, tasks, channel, m)

Active(f) == f.pc \in {"publishing", "waiting"}

\* history: a reply to a waiting call has been published on its response channel
NoteReply(frames, channel, m) ==
    [p \in Callers |->
        IF frames[p].pc = "waiting" /\ channel = ResponseChannel(Sender(p))
           /\ m.correlation_id = frames[p].correlation_id
        THEN [frames[p] EXCEPT !.replied = TRUE]
        ELSE frames[p]]

\* Whether the store takes a command sent through the client.  The connection of an
\* open client is up; a client that was closed, or that never got through to the
\* store, connects anew for the command, and the store answers that or does not.
StoreAnswers(client) == IF client = "open" THEN {TRUE} ELSE {TRUE, FALSE}

\* publish, lines 101-128
Publish(channel, m) ==
    IF NotConnected(redis_client)
    THEN /\ last' = "RuntimeError"
         /\ refused' = refused \cup {m.id}
         /\ UNCHANGED <<app, bus, clock, life, calls, rr, invoked, eligible, stable, heard,
                        published>>
    ELSE /\ closed_use' = (closed_use \/ redis_client = "closed")
         /\ \E ok \in StoreAnswers(redis_client) :
                IF ok
                THEN /\ Room(listener_tasks, channel)
                     /\ listener_tasks' = Deliver(listener_tasks, channel, Encode(m))
                     /\ Published(listener_tasks, channel, m)
                     /\ rr' = NoteReply(rr, channel, m)
                     /\ last' = "ok"
                     /\ UNCHANGED refused
                ELSE /\ last' = "ConnectionError"
                     /\ refused' = refused \cup {m.id}
                     /\ UNCHANGED <<app, listener_tasks, rr, eligible, stable, heard, published>>
         /\ UNCHANGED <<app, redis_client, handlers, subscriptions, unsub_tasks, clock,
                        running, dc, closes, calls, invoked>>

\* A choice of channel that answers on the recipient's response channel
SendToResponses(recipient_id) ==
    IF recipient_id # None THEN ResponseChannel(recipient_id) ELSE BroadcastChannel

\* send_message, lines 291-294; recipient_id None is the broadcast
SendChannel(recipient_id) ==
    IF recipient_id # None THEN AgentChannel(recipient_id) ELSE BroadcastChannel

\* send_message, lines 258-297; the envelope's id is the default of line 33
SendMessage(sender_id, recipient_id, message_type, payload, correlation_id, priority) ==
    LET message == NewMessage(clock, sender_id, recipient_id, message_type, payload,
                              correlation_id, priority)
        channel == SendChannel(recipient_id)
    IN  /\ Publish(channel, Header(message))
        /\ wire' = [envelope |-> message, channel |-> channel,
                    raw |-> IF NotConnected(redis_client) THEN NoRaw ELSE Json(message),
                    decoded |-> NoEnvelope,
                    returned |-> IF last' = "ok" THEN message.id ELSE None]

\* publish(channel, e), lines 101-128, called by the application with an envelope
\* of its own making
PublishEnvelope(channel, e) ==
    /\ Publish(channel, Header(e))
    /\ wire' = [envelope |-> e, channel |-> channel,
                raw |-> IF NotConnected(redis_client) THEN NoRaw ELSE Json(e),
                decoded |-> NoEnvelope, returned |-> None]

\* lines 211-212: a listener decodes the payload that publish put on the wire
DecodeWire ==
    /\ wire.raw.id # JNull
    /\ wire.decoded.id = None
    /\ wire' = [wire EXCEPT !.decoded = Parse(wire.raw)]
    /\ UNCHANGED <<app, bus, clock, calls, rr, hist, last, life>>

\* time passes
Tick ==
    /\ clock < MaxClock
    /\ clock' = clock + 1
    /\ UNCHANGED <<app, bus, life, wire, calls, rr, hist, last>>

-----------------------------------------------------------------------------
(* _listen_to_channel and _handle_message_safely *)

\* A dispatch to every registered handler, subscribed to the channel or not
DispatchAllRegistered(subs, regs, channel) ==
    {<<h, regs[h]>> : h \in {g \in HandlerIds : regs[g] # 0}}

\* lines 215-224: the handler objects a dispatch creates a task for
DispatchTargets(subs, regs, channel) ==
    {<<h, regs[h]>> : h \in {g \in Subscribers(subs, channel) : Registered(regs, g)}}

\* first step of the task: line 198, or a cancellation that came before it ran
ListenerStart(i) ==
    /\ listener_tasks[i].st = "created"
    /\ listener_tasks' = [listener_tasks EXCEPT ![i].st =
            IF listener_tasks[i].cancel \/ NotConnected(redis_client)
            THEN "done" ELSE "subscribing"]
    /\ closed_use' = (closed_use \/ (~listener_tasks[i].cancel /\ redis_client = "closed"))
    /\ UNCHANGED <<app, redis_client, handlers, subscriptions, unsub_tasks, clock, running, dc,
                   closes, wire, calls, rr, hist, last>>

\* line 203 returns: the server has the subscription
ListenerAttach(i) ==
    /\ listener_tasks[i].st = "subscribing"
    /\ ~listener_tasks[i].cancel
    /\ listener_tasks' = [listener_tasks EXCEPT ![i].st = "listening", ![i].sub = TRUE]
    /\ UNCHANGED <<app, redis_client, handlers, subscriptions, unsub_tasks, clock, life, wire, calls, rr,
                   hist, last>>

\* A listener without the inner try: a payload that does not decode ends the task
ReceivedStopping(t, raw, targets) ==
    IF ~Decodable(raw)
    THEN [t EXCEPT !.inbox = <<>>, !.st = "done", !.sub = FALSE, !.bad = TRUE]
    ELSE IF targets # {}
    THEN [t EXCEPT !.inbox = Tail(@), !.st = "gathering", !.cur = Decode(raw), !.pend = targets]
    ELSE [t EXCEPT !.inbox = Tail(@)]

\* lines 208-230: the task after it read a payload: json.loads or Message(**msg_data)
\* raised and the inner except logged it, or the envelope is fanned out, or there
\* is no one to fan it out to
Received(t, raw, targets) ==
    IF ~Decodable(raw)
    THEN [t EXCEPT !.inbox = Tail(@), !.bad = TRUE]
    ELSE IF targets # {}
    THEN [t EXCEPT !.inbox = Tail(@), !.st = "gathering", !.cur = Decode(raw), !.pend = targets]
    ELSE [t EXCEPT !.inbox = Tail(@)]

\* lines 207-227: the next payload, decoded and fanned out
ListenerReceive(i) ==
    LET t == listener_tasks[i]
        raw == Head(t.inbox)
        targets == DispatchTargets(subscriptions, handlers, t.channel)
    IN  /\ t.st = "listening"
        /\ ~t.cancel
        /\ t.inbox # <<>>
        /\ listener_tasks' = [listener_tasks EXCEPT ![i] = Received(t, raw, targets)]
        /\ UNCHANGED <<app, redis_client, handlers, subscriptions, unsub_tasks, clock, life, wire, calls,
                       rr, hist, last>>

\* history: none, one, more than one
Bump(n) == IF n < 2 THEN n + 1 ELSE n

\* ResponseHandler.handle_message, lines 368-373, on the object of call `obj`
Captured(frames, obj, m) ==
    [p \in Callers |->
        IF frames[p].obj = obj /\ frames[p].pc # "done"
           /\ m.correlation_id = frames[p].correlation_id
        THEN [frames[p] EXCEPT !.event = TRUE, !.response = m]
        ELSE frames[p]]

\* the response a replying handler returns: it answers the request's correlation_id
Response(h, m) == Message(MessageId(clock), h, m.correlation_id)

\* lines 249-251: the response is published when there is one and a sender to answer
PublishesResponse(h, obj, m, client) ==
    /\ obj = UserObject
    /\ HandlerKind(h) = "reply"
    /\ m.sender_id # None
    /\ ~NotConnected(client)

\* A fan-out that a raising handler breaks off: the handlers not yet run are skipped
AfterHandlerAborting(t, hp) ==
    IF hp[2] = UserObject /\ HandlerKind(hp[1]) = "raise"
    THEN [t EXCEPT !.pend = {}]
    ELSE [t EXCEPT !.pend = @ \ {hp}]

\* lines 245-256 and gather(return_exceptions=True), line 227: the listener's task
\* once the handler's task has ended, whether it returned or raised
AfterHandler(t, hp) == [t EXCEPT !.pend = @ \ {hp}]

\* A response sent to everyone instead of to the sender's response channel
ResponseToBroadcast(message) == BroadcastChannel

\* line 250
response_channel(message) == ResponseChannel(message.sender_id)

\* one task of the fan-out: _handle_message_safely(handler, msg), lines 243-256;
\* a publish of the response that raises is caught with the handler's own failures
HandlerRun(i, hp) ==
    LET t == listener_tasks[i]
        h == hp[1]
        obj == hp[2]
        rest == [listener_tasks EXCEPT ![i] = AfterHandler(t, hp)]
        channel == response_channel(t.cur)
        responds == PublishesResponse(h, obj, t.cur, redis_client)
    IN  /\ t.st = "gathering"
        /\ ~t.cancel
        /\ hp \in t.pend
        /\ invoked' = [invoked EXCEPT ![h][t.cur.id] = Bump(@)]
        /\ \E ok \in IF responds THEN StoreAnswers(redis_client) ELSE {TRUE} :
                /\ rr' = IF obj # UserObject THEN Captured(rr, obj, t.cur)
                         ELSE IF responds /\ ok
                         THEN NoteReply(rr, channel, Response(h, t.cur))
                         ELSE rr
                /\ IF responds /\ ok
                   THEN /\ Room(rest, channel)
                        /\ listener_tasks' = Deliver(rest, channel, Encode(Response(h, t.cur)))
                        /\ Published(rest, channel, Response(h, t.cur))
                   ELSE /\ listener_tasks' = rest
                        /\ UNCHANGED <<app, published, eligible, stable, heard>>
        /\ closed_use' = (closed_use \/ (PublishesResponse(h, obj, t.cur, redis_client)
                                            /\ redis_client = "closed"))
        /\ UNCHANGED <<app, redis_client, handlers, subscriptions, unsub_tasks, clock, running,
                       dc, closes, wire, calls, refused, last>>

\* line 227: gather returns once every task of the fan-out has ended
GatherDone(i) ==
    /\ listener_tasks[i].st = "gathering"
    /\ ~listener_tasks[i].cancel
    /\ listener_tasks[i].pend = {}
    /\ listener_tasks' = [listener_tasks EXCEPT ![i].st = "listening", ![i].cur = NoMsg]
    /\ UNCHANGED <<app, redis_client, handlers, subscriptions, unsub_tasks, clock, life, wire, calls, rr,
                   hist, last>>

\* lines 234-239: CancelledError reaches the listener suspended inside the try; the
\* fan-out's tasks are cancelled with it, the except clause catches it, and the
\* finally block suspends in pubsub.unsubscribe(channel)
ListenerCancelled(i) ==
    /\ listener_tasks[i].st \in {"subscribing", "listening", "gathering"}
    /\ listener_tasks[i].cancel
    /\ listener_tasks' = [listener_tasks EXCEPT ![i].st = "unsubscribing", ![i].inbox = <<>>,
                                                ![i].cur = NoMsg, ![i].pend = {},
                                                ![i].cancel = FALSE]
    /\ UNCHANGED <<app, redis_client, handlers, subscriptions, unsub_tasks, clock, life, wire, calls, rr,
                   hist, last>>

\* lines 239-240: unsubscribe and close return; the task ends
ListenerFinally(i) ==
    /\ listener_tasks[i].st = "unsubscribing"
    /\ ~listener_tasks[i].cancel
    /\ listener_tasks' = [listener_tasks EXCEPT ![i].st = "done", ![i].sub = FALSE]
    /\ UNCHANGED <<app, redis_client, handlers, subscriptions, unsub_tasks, clock, life, wire, calls, rr,
                   hist, last>>

\* lines 239-242: a CancelledError raised in pubsub.unsubscribe(channel) is caught by
\* the bare except; the unsubscribe is not completed and the close is skipped; the
\* task ends.  Whether the interrupted command took the subscription away (it went
\* out, or the transport dropped the connection) is the transport's choice.
ListenerFinallyCancelled(i) ==
    /\ listener_tasks[i].st = "unsubscribing"
    /\ listener_tasks[i].cancel
    /\ \E dropped \in BOOLEAN :
            listener_tasks' = [listener_tasks EXCEPT ![i].st = "done", ![i].cancel = FALSE,
                                                    ![i].sub = @ /\ ~dropped]
    /\ UNCHANGED <<app, redis_client, handlers, subscriptions, unsub_tasks, clock, life, wire, calls, rr,
                   hist, last>>

-----------------------------------------------------------------------------
(* request_response, lines 299-356; the caller p sends as Sender(p) *)

\* the finally block, lines 353-356, from the table, tasks and registry it finds
CleanupSubscriptions(subs, channel, handler_id) == Unsubscribed(subs, channel, handler_id)

CleanupTasks(subs, tasks, channel, handler_id) ==
    TasksAfterUnsubscribe(subs, tasks, channel, handler_id)

CleanupUnsubTasks(subs, regs, channel, handler_id) ==
    IF Registered(regs, handler_id)
    THEN UnsubscribeTasksFor(Unsubscribed(subs, channel, handler_id), handler_id)
    ELSE <<>>

\* A call that leaves its handler in the registry
CleanupHandlersSkipped(regs, handler_id) == regs

CleanupHandlers(regs, handler_id) ==
    IF Registered(regs, handler_id) THEN Unregistered(regs, handler_id) ELSE regs

Finished(f, outcome, result, error) ==
    [f EXCEPT !.pc = "done", !.outcome = outcome, !.result = result, !.error = error]

\* lines 320-337, up to the await of the transport's PUBLISH; on a bus that is not
\* connected publish raises at once and the finally block runs
RRCall(p, recipient_id) ==
    LET correlation_id == CorrelationId(clock)
        hid == ResponseHandlerId(correlation_id)
        channel == ResponseChannel(Sender(p))
        regs == [handlers EXCEPT ![hid] = calls + 1]
        subs == Subscribed(subscriptions, channel, hid)
        tasks == TasksAfterSubscribe(subscriptions, listener_tasks, channel, hid)
        f == [NoFrame EXCEPT !.pc = "publishing", !.recipient_id = recipient_id,
                             !.correlation_id = correlation_id, !.obj = calls + 1,
                             !.pre_handlers = handlers,
                             !.pre_subscriptions = subscriptions]
    IN  /\ ~Active(rr[p])
        /\ calls < MaxCalls
        /\ FirstSubscription(subscriptions, channel, hid) => Len(listener_tasks) < MaxTasks
        /\ calls' = calls + 1
        /\ eligible' = NoteSubscriber(eligible, channel, hid)
        /\ stable' = NoteUnregistered(stable, hid)
        /\ IF NotConnected(redis_client)
           THEN /\ subscriptions' = CleanupSubscriptions(subs, channel, hid)
                /\ listener_tasks' = CleanupTasks(subs, tasks, channel, hid)
                /\ unsub_tasks' = unsub_tasks \o CleanupUnsubTasks(subs, regs, channel, hid)
                /\ handlers' = CleanupHandlers(regs, hid)
                /\ rr' = [rr EXCEPT ![p] = Finished(f, "raised", NoMsg, "RuntimeError")]
           ELSE /\ subscriptions' = subs
                /\ listener_tasks' = tasks
                /\ handlers' = regs
                /\ rr' = [rr EXCEPT ![p] = f]
                /\ UNCHANGED unsub_tasks
        /\ UNCHANGED <<app, redis_client, clock, life, wire, invoked, heard, published, refused, last>>

\* the finally block, then the call returns or raises
RRFinish(p, outcome, result, error) ==
    LET hid == ResponseHandlerId(rr[p].correlation_id)
        channel == ResponseChannel(Sender(p))
    IN  /\ subscriptions' = CleanupSubscriptions(subscriptions, channel, hid)
        /\ listener_tasks' = CleanupTasks(subscriptions, listener_tasks, channel, hid)
        /\ unsub_tasks' = unsub_tasks \o CleanupUnsubTasks(subscriptions, handlers, channel, hid)
        /\ handlers' = CleanupHandlers(handlers, hid)
        /\ rr' = [rr EXCEPT ![p] = Finished(rr[p], outcome, result, error)]
        /\ stable' = NoteUnregistered(stable, hid)

\* line 331 resumes: the server has published the request and the call goes on to
\* wait_for, lines 340-343; or the transport failed and publish raised
RRPublish(p, ok) ==
    LET m == Message(MessageId(clock), Sender(p), rr[p].correlation_id)
        channel == AgentChannel(rr[p].recipient_id)
    IN  /\ rr[p].pc = "publishing"
        /\ IF ok
           THEN /\ Room(listener_tasks, channel)
                /\ listener_tasks' = Deliver(listener_tasks, channel, Encode(m))
                /\ Published(listener_tasks, channel, m)
                /\ rr' = [rr EXCEPT ![p].pc = "waiting", ![p].waited = TRUE]
                /\ UNCHANGED <<app, handlers, subscriptions, unsub_tasks>>
           ELSE /\ RRFinish(p, "raised", NoMsg, "ConnectionError")
                /\ UNCHANGED <<app, published, eligible, heard>>
        /\ UNCHANGED <<app, redis_client, clock, life, wire, calls, invoked, refused, last>>

\* lines 340-345: the event is set, wait_for returns the captured response
RRReturn(p) ==
    /\ rr[p].pc = "waiting"
    /\ rr[p].event
    /\ RRFinish(p, "returned", rr[p].response, None)
    /\ UNCHANGED <<app, redis_client, clock, life, wire, calls, invoked, eligible, heard, published,
                   refused, last>>

\* A call that lets wait_for's TimeoutError out
TimedOutRaising(f) == Finished(f, "raised", NoMsg, "TimeoutError")

\* lines 347-351: what the call does with wait_for's TimeoutError
TimedOut(f) == Finished(f, "returned", NoMsg, None)

\* lines 340-351: the timeout elapses with the event not set
RRTimeout(p) ==
    /\ rr[p].pc = "waiting"
    /\ ~rr[p].event
    /\ RRFinish(p, TimedOut(rr[p]).outcome, TimedOut(rr[p]).result, TimedOut(rr[p]).error)
    /\ UNCHANGED <<app, redis_client, clock, life, wire, calls, invoked, eligible, heard, published,
                   refused, last>>

\* The recipient, another process on the same store, publishes an envelope on the
\* sender's response channel once the request has been published
Reply(p, id, correlation_id) ==
    LET m == Message(id, rr[p].recipient_id, correlation_id)
        channel == ResponseChannel(Sender(p))
    IN  /\ rr[p].pc = "waiting"
        /\ Room(listener_tasks, channel)
        /\ listener_tasks' = Deliver(listener_tasks, channel, Encode(m))
        /\ Published(listener_tasks, channel, m)
        /\ rr' = NoteReply(rr, channel, m)
        /\ UNCHANGED <<app, redis_client, handlers, subscriptions, unsub_tasks, clock, life, wire, calls,
                       invoked, refused, last>>

-----------------------------------------------------------------------------
(* Spec: a connected bus under the application's register, subscribe,       *)
(* unsubscribe, unregister and publish calls                                *)

BusHandlers == {"h1", "h2"}

BusChannels == {BroadcastChannel}

Connected == ~NotConnected(redis_client)

\* each envelope is published once, the envelopes in the order of their ids
Fresh(i) ==
    /\ published[UserMsgId(i)] = {}
    /\ UserMsgId(i) \notin refused
    /\ \A j \in 1..(i - 1) : published[UserMsgId(j)] # {} \/ UserMsgId(j) \in refused

Listener ==
    \E i \in 1..Len(listener_tasks) :
        \/ ListenerStart(i)
        \/ ListenerAttach(i)
        \/ ListenerReceive(i)
        \/ \E hp \in listener_tasks[i].pend : HandlerRun(i, hp)
        \/ GatherDone(i)

Next ==
    \/ Connect
    \/ \E h \in BusHandlers : RegisterHandler(h)
    \/ \E c \in BusChannels, h \in BusHandlers : Subscribe(c, h)
    \/ \E c \in BusChannels, h \in BusHandlers : Unsubscribe(c, h)
    \/ \E h \in BusHandlers : UnregisterHandler(h)
    \/ RunUnsubscribeTask
    \/ \E c \in BusChannels, i \in 1..NumUserMsgs :
            Fresh(i) /\ Publish(c, Message(UserMsgId(i), "a", None)) /\ UNCHANGED wire
    \/ Listener

Spec == Init /\ [][Next]_vars

-----------------------------------------------------------------------------
(* SpecSend: publish and send_message around connect(), with one handler     *)

NextSend ==
    \/ Connect
    \/ Tick
    \/ RegisterHandler("h1")
    \/ Subscribe(BroadcastChannel, "h1")
    \/ Fresh(1) /\ Publish(BroadcastChannel, Message(UserMsgId(1), "a", None))
            /\ UNCHANGED wire
    \/ \E r \in {None, "b"} : SendMessage("a", r, "TASK_UPDATE", PyInt(50), None, 5)
    \/ Listener

SpecSend == Init /\ [][NextSend]_vars

-----------------------------------------------------------------------------
(* SpecRR: request_response calls of sender "a" to recipient "b", a second    *)
(* handler that the application subscribes to the response channel outside   *)
(* the calls, and the recipient's replies                                    *)

Quiet == \A p \in Callers : ~Active(rr[p])

NextRR ==
    \/ Connect
    \/ Tick
    \/ Quiet /\ RegisterHandler("h1")
    \/ Quiet /\ Subscribe(ResponseChannel("a"), "h1")
    \/ RRCall("a", "b")
    \/ \E ok \in BOOLEAN : RRPublish("a", ok)
    \/ RRReturn("a")
    \/ RRTimeout("a")
    \/ \E i \in 1..NumUserMsgs, c \in {rr["a"].correlation_id, None} :
            Fresh(i) /\ Reply("a", UserMsgId(i), c)
    \/ Listener

SpecRR == Init /\ [][NextRR]_vars

\* the event loop runs a call whose wait_for has a result or whose timeout elapsed
FairSpecRR ==
    SpecRR /\ \A p \in Callers : WF_vars(RRReturn(p)) /\ WF_vars(RRTimeout(p))

-----------------------------------------------------------------------------
(* SpecLife: connect() that succeeds or fails, disconnect(), and the calls an   *)
(* application makes around them on two channels with one handler               *)

LifeChannels == {BroadcastChannel, AgentChannel("a")}

ListenerLife ==
    \E i \in 1..Len(listener_tasks) :
        \/ ListenerStart(i)
        \/ ListenerAttach(i)
        \/ ListenerReceive(i)
        \/ \E hp \in listener_tasks[i].pend : HandlerRun(i, hp)
        \/ GatherDone(i)
        \/ ListenerCancelled(i)
        \/ ListenerFinally(i)

NextLife ==
    \/ Connect
    \/ ConnectFails
    \/ RegisterHandler("h1")
    \/ \E c \in LifeChannels : Subscribe(c, "h1")
    \/ DisconnectCall
    \/ DisconnectGathered
    \/ Fresh(1) /\ Publish(BroadcastChannel, Message(UserMsgId(1), "a", None))
            /\ UNCHANGED wire
    \/ SendMessage("a", None, "TASK_UPDATE", PyInt(50), None, 5)
    \/ ListenerLife

SpecLife == Init /\ [][NextLife]_vars

-----------------------------------------------------------------------------
(* SpecCancel: a channel whose name is part of every task's str(), so that       *)
(* unsubscribe does cancel a listener, together with disconnect()                *)

ListenerCancel ==
    \E i \in 1..Len(listener_tasks) :
        \/ ListenerStart(i)
        \/ ListenerAttach(i)
        \/ ListenerReceive(i)
        \/ \E hp \in listener_tasks[i].pend : HandlerRun(i, hp)
        \/ GatherDone(i)
        \/ ListenerCancelled(i)
        \/ ListenerFinally(i)
        \/ ListenerFinallyCancelled(i)

NextCancel ==
    \/ Connect
    \/ RegisterHandler("h1")
    \/ Subscribe(TaskChannel, "h1")
    \/ Unsubscribe(TaskChannel, "h1")
    \/ DisconnectCall
    \/ DisconnectGathered
    \/ Fresh(1) /\ Publish(TaskChannel, Message(UserMsgId(1), "a", None))
            /\ UNCHANGED wire
    \/ ListenerCancel

SpecCancel == Init /\ [][NextCancel]_vars

-----------------------------------------------------------------------------
(* SpecDecode: one listener whose channel also carries payloads that are not     *)
(* envelopes, published by another client of the store                           *)

\* line 207: pubsub.listen() yields whatever was published to the channel
PublishRaw(channel, raw) ==
    /\ \E i \in 1..Len(listener_tasks) :
            listener_tasks[i].channel = channel /\ Attached(listener_tasks[i])
    /\ Room(listener_tasks, channel)
    /\ listener_tasks' = Deliver(listener_tasks, channel, raw)
    /\ UNCHANGED <<app, redis_client, handlers, subscriptions, unsub_tasks, clock, life, wire, calls,
                   rr, hist, last>>

NextDecode ==
    \/ Connect
    \/ \E h \in BusHandlers : RegisterHandler(h)
    \/ \E h \in BusHandlers : Subscribe(BroadcastChannel, h)
    \/ \E raw \in Malformed : PublishRaw(BroadcastChannel, raw)
    \/ \E i \in 1..NumUserMsgs :
            Fresh(i) /\ Publish(BroadcastChannel, Message(UserMsgId(i), "a", None))
                /\ UNCHANGED wire
    \/ Listener

SpecDecode == Init /\ [][NextDecode]_vars

-----------------------------------------------------------------------------
(* SpecReply: a handler that answers (h3) and one that does not (h1) on the      *)
(* broadcast channel, envelopes with and without a sender, a listener on the     *)
(* sender's response channel, and a store that may fail the bus's commands       *)

ReplyHandlers == {"h1", "h3"}

NextReply ==
    \/ Connect
    \/ ConnectFails
    \/ \E h \in ReplyHandlers : RegisterHandler(h)
    \/ \E h \in ReplyHandlers : Subscribe(BroadcastChannel, h)
    \/ Subscribe(ResponseChannel("a"), "h1")
    \/ \E sender_id \in {"a", None} :
            Fresh(1) /\ Publish(BroadcastChannel, Message(UserMsgId(1), sender_id, None))
                /\ UNCHANGED wire
    \/ Listener

SpecReply == Init /\ [][NextReply]_vars

-----------------------------------------------------------------------------
(* SpecRR2: two request_response calls of sender "a" in flight at once, and the  *)
(* recipient's replies to either                                                *)

CorrelationIds == {CorrelationId(t) : t \in Now}

NextRR2 ==
    \/ Connect
    \/ Tick
    \/ \E p \in Callers : RRCall(p, "b")
    \/ \E p \in Callers : RRPublish(p, TRUE)
    \/ \E p \in Callers : RRReturn(p)
    \/ \E p \in Callers : RRTimeout(p)
    \/ \E p \in Callers, c \in CorrelationIds \cup {None} : Fresh(1) /\ Reply(p, UserMsgId(1), c)
    \/ Listener

SpecRR2 == Init /\ [][NextRR2]_vars

-----------------------------------------------------------------------------
(* SpecWire: the envelopes send_message builds and the envelopes the application *)
(* publishes itself, encoded by publish and decoded as a listener decodes them   *)

\* envelopes of the application's own making
OwnEnvelopes ==
    {Envelope(UserMsgId(1), ty, "a", r, pl, Datetime(t), c, pr, x) :
        ty \in MessageTypes, r \in {None, "b"}, pl \in Payloads, t \in Now,
        c \in {None, CorrelationId(0)}, pr \in Priorities,
        x \in {None, Datetime(MaxClock)}}

\* the application has an envelope; what it passes to send_message are its fields
InitWire == InitBus /\ InitApp /\ wire \in {[NoWire EXCEPT !.envelope = e] : e \in OwnEnvelopes}

NextWire ==
    \/ Connect
    \/ Tick
    \/ SendMessage(wire.envelope.sender_id, wire.envelope.recipient_id,
                   wire.envelope.type, wire.envelope.payload,
                   wire.envelope.correlation_id, wire.envelope.priority)
    \/ PublishEnvelope(BroadcastChannel, wire.envelope)
    \/ DecodeWire

SpecWire == InitWire /\ [][NextWire]_vars

-----------------------------------------------------------------------------
(* Properties of subscription and delivery *)

\* the envelope is in no connection's buffer and in no fan-out
Settled(id) ==
    \A i \in 1..Len(listener_tasks) :
        /\ listener_tasks[i].cur.id # id
        /\ \A k \in 1..Len(listener_tasks[i].inbox) :
                Decodable(listener_tasks[i].inbox[k])
                    => Decode(listener_tasks[i].inbox[k]).id # id

\* C4: an envelope published to a channel while registered handler h is its only
\* subscriber, h staying so, is handed to h exactly once: never twice, and once
\* by the time the envelope is nowhere in flight any more.
C4_DeliveredExactlyOnce ==
    \A m \in UserMsgIds, h \in UserHandlers :
        (published[m] # {} /\ eligible[m] = {h} /\ stable[m] = {h})
            => /\ invoked[h][m] <= 1
               /\ Settled(m) => invoked[h][m] = 1

\* a received envelope reaches every handler that stayed subscribed
C5_Isolated ==
    \A m \in UserMsgIds :
        (m \in heard /\ Settled(m)) => \A h \in stable[m] : invoked[h][m] >= 1

C5_ListenerGoesOn ==
    \A i \in 1..Len(listener_tasks) :
        (Attached(listener_tasks[i]) /\ ~listener_tasks[i].cancel)
            => Attached(listener_tasks'[i])

C6_Dispatches(i) ==
    /\ listener_tasks[i].st = "listening"
    /\ ~listener_tasks[i].cancel
    /\ Len(listener_tasks'[i].inbox) < Len(listener_tasks[i].inbox)

C6_AtDispatch ==
    \A i \in 1..Len(listener_tasks) :
        C6_Dispatches(i) =>
            {hp[1] : hp \in listener_tasks'[i].pend} =
                {h \in HandlerIds : /\ handlers[h] # 0
                                    /\ InList(subscriptions[listener_tasks[i].channel], h)}

C6_OnlySubscribed ==
    \A m \in UserMsgIds, h \in HandlerIds : invoked[h][m] >= 1 => h \in eligible[m]

\* C6: a listener that takes an envelope off its connection creates the fan-out
\* for exactly the registered handlers the table lists for the channel at that
\* moment; and a handler is only ever invoked with an envelope if it was subscribed
\* to the envelope's channel at some moment since the envelope was published.
C6_DispatchTimeSubscribers == [][C6_AtDispatch]_vars /\ [](C6_OnlySubscribed)

C6_Witness ==
    /\ Len(listener_tasks) = 1
    /\ invoked["h1"][UserMsgId(1)] >= 1
    /\ invoked["h2"][UserMsgId(1)] = 0
    /\ invoked["h2"][UserMsgId(2)] >= 1
    /\ invoked["h1"][UserMsgId(2)] = 0
    /\ "h1" \notin eligible[UserMsgId(2)]
    /\ Settled(UserMsgId(2))

\* C7: a handler that is not in the registry is in no channel's subscriber list.
C7_UnregisteredNotSubscribed ==
    \A h \in HandlerIds :
        handlers[h] = 0 => \A c \in Channels : ~InList(subscriptions[c], h)

\* what a subscribe call with an unknown id does, and what ids enter a list
C8_SubscribeChecks ==
    /\ \A c \in BusChannels, h \in BusHandlers :
            (handlers[h] = 0 /\ Subscribe(c, h))
                => (last' = "ValueError" /\ UNCHANGED <<app, subscriptions, listener_tasks>>)
    /\ subscriptions' # subscriptions =>
            \A c \in Channels, h \in HandlerIds :
                (InList(subscriptions'[c], h) /\ ~InList(subscriptions[c], h))
                    => handlers[h] # 0

\* C8: subscribe with an id that is not in the registry raises and leaves the
\* table and the listener tasks as they were; and whenever an id enters a
\* channel's list, it is in the registry.
C8_SubscribeNeedsRegistration == [][C8_SubscribeChecks]_vars

C8_Witness ==
    /\ last = "ValueError"
    /\ \E c \in Channels : subscriptions[c] # <<>>
    /\ \E h \in BusHandlers : handlers[h] = 0

\* what publish does on a bus without a client
C9_Refuses ==
    \A c \in Channels, id \in MsgIds :
        (redis_client = "none" /\ Publish(c, Message(id, "a", None)))
            => /\ last' = "RuntimeError"
               /\ UNCHANGED <<app, handlers, subscriptions, listener_tasks, unsub_tasks>>

C9_NeverDelivered ==
    \A m \in refused :
        published[m] = {} => Settled(m) /\ \A h \in HandlerIds : invoked[h][m] = 0

\* C9: on a bus that was never connected, publish and send_message raise the
\* not-connected error and leave registry, table and tasks as they were; and an
\* envelope so refused is in no connection's buffer and is never handed to a
\* handler, also once the bus is connected.
C9_NotConnectedFailsFast == [][C9_Refuses]_vars /\ [](C9_NeverDelivered)

C9_Witness ==
    /\ redis_client = "open"
    /\ \E m \in refused : published[m] = {}
    /\ \E m \in MsgIds : invoked["h1"][m] >= 1

\* what subscribe does on a bus without a client
C10_Step ==
    \A c \in Channels, h \in HandlerIds :
        (redis_client = "none" /\ handlers[h] # 0 /\ Subscribe(c, h))
            => /\ last' = "RuntimeError"
               /\ UNCHANGED <<app, subscriptions, listener_tasks>>

\* C10: subscribe for a registered handler on a bus that was never connected
\* raises the not-connected error, adds nothing to the table and starts no task.
C10_SubscribeNeedsConnection == [][C10_Step]_vars

-----------------------------------------------------------------------------
(* Properties of request_response *)

\* the step on which a request_response call of p returns or raises
Returns(p) ==
    /\ rr'[p].pc = "done"
    /\ rr[p].pc # "done" \/ calls' # calls

RRHandlerGone(p) ==
    LET h == ResponseHandlerId(rr'[p].correlation_id)
    IN  /\ handlers'[h] = 0
        /\ \A c \in Channels : ~InList(subscriptions'[c], h)
        /\ \A k \in 1..Len(unsub_tasks') : unsub_tasks'[k][2] # h

RRRestored(p) ==
    /\ handlers' = rr'[p].pre_handlers
    /\ subscriptions' = rr'[p].pre_subscriptions

C1_Cleanup == \A p \in Callers : Returns(p) => RRHandlerGone(p) /\ RRRestored(p)

\* C1: when a request_response call returns or raises -- a reply arrived, the
\* timeout elapsed, or publishing the request failed -- with no other registry
\* change during the call, its temporary response handler is in no channel's
\* subscriber list and not in the handler registry, and the registry and the
\* subscription map hold exactly what they held before the call.
C1_TemporaryHandlerRemoved == [][C1_Cleanup]_vars

\* the second call timed out while another handler was subscribed to the
\* response channel
C1_Witness ==
    /\ rr["a"].pc = "done"
    /\ rr["a"].waited
    /\ rr["a"].outcome = "returned"
    /\ rr["a"].result = NoMsg
    /\ calls = 2
    /\ InList(rr["a"].pre_subscriptions[ResponseChannel("a")], "h1")
    /\ subscriptions = rr["a"].pre_subscriptions
    /\ handlers = rr["a"].pre_handlers

\* C2: a request_response call to whose request the recipient published, before
\* the timeout, a reply with the request's correlation id on the sender's
\* response channel returns that reply envelope.
C2_ReplyReturned ==
    \A p \in Callers :
        rr[p].pc = "done" /\ rr[p].replied =>
            /\ rr[p].outcome = "returned"
            /\ rr[p].result # NoMsg
            /\ rr[p].result.correlation_id = rr[p].correlation_id

C3_NoneOnTimeout ==
    \A p \in Callers :
        rr[p].pc = "done" /\ rr[p].waited =>
            /\ rr[p].outcome = "returned"
            /\ rr[p].error = None
            /\ ~rr[p].event => rr[p].result = NoMsg

C3_Ends == \A p \in Callers : rr[p].pc = "waiting" ~> rr[p].pc = "done"

\* C3: a request_response call that has published its request and whose handler
\* captured no envelope with the request's correlation id before the timeout
\* -- envelopes with another or no correlation id do not count -- ends, raises
\* nothing and returns None.
C3_TimeoutReturnsNone == [](C3_NoneOnTimeout) /\ C3_Ends

\* a call returned None although its handler had been run on an envelope that
\* carries no correlation id
C3_Witness ==
    /\ rr["a"].pc = "done"
    /\ rr["a"].waited
    /\ ~rr["a"].event
    /\ rr["a"].outcome = "returned"
    /\ rr["a"].result = NoMsg
    /\ \E i \in 1..NumUserMsgs :
           invoked[ResponseHandlerId(rr["a"].correlation_id)][UserMsgId(i)] > 0

-----------------------------------------------------------------------------
(* Properties of connect and disconnect *)

\* a publish, send_message or subscribe call on a bus in state `client` is refused
\* with the not-connected error and reaches neither the table, the tasks nor the
\* transport
RefusedWhen(client) ==
    redis_client = client /\ dc.pc = "idle" =>
        /\ \A c \in Channels, id \in MsgIds :
                Publish(c, Message(id, "a", None)) =>
                    /\ last' = "RuntimeError"
                    /\ UNCHANGED <<app, listener_tasks, published, closed_use>>
        /\ \A c \in LifeChannels :
                (handlers["h1"] # 0 /\ Subscribe(c, "h1")) =>
                    /\ last' = "RuntimeError"
                    /\ UNCHANGED <<app, subscriptions, listener_tasks>>

C11_Step == RefusedWhen("closed")

\* C11: once disconnect() has completed on a bus that was connected, and until
\* connect() succeeds again, every publish, send_message and subscribe call raises
\* the not-connected error, and no command is sent through the closed client.
C11_DisconnectedAfterDisconnect == [][C11_Step]_vars /\ [](~closed_use)

C12_Step ==
    /\ ConnectFails => (last' = "ConnectionError" /\ redis_client' # "open")
    /\ redis_client = "failed" =>
            \A c \in Channels, id \in MsgIds :
                Publish(c, Message(id, "a", None)) =>
                    /\ last' = "RuntimeError"
                    /\ UNCHANGED <<app, listener_tasks, published>>

\* C12: a connect() that fails raises the error to its caller and leaves the bus
\* disconnected: a publish after it raises the not-connected error and publishes
\* nothing, as on a bus on which connect() was never called.
C12_FailedConnectStaysDisconnected == [][C12_Step]_vars

\* what a disconnect() step leaves alone when it has nothing to do
C13_NoOp ==
    /\ UNCHANGED <<app, redis_client, handlers, subscriptions, unsub_tasks, running, closes>>
    /\ \A i \in 1..Len(listener_tasks) :
            listener_tasks[i].st \notin {"created", "done"}
                => listener_tasks'[i].cancel = listener_tasks[i].cancel

C13_Step ==
    /\ (Disconnected(redis_client) /\ DisconnectCall) => (last' = "ok" /\ C13_NoOp)
    /\ (dc.again /\ DisconnectGathered) => C13_NoOp

\* C13: disconnect() on a bus that was never connected, or on which disconnect()
\* has completed since the last connect(), raises nothing, changes no bus state,
\* calls close() on no client and cancels no running task.
C13_DisconnectIdempotent == [][C13_Step]_vars

C20_Step ==
    /\ DisconnectCall =>
            \A i \in 1..Len(listener_tasks) :
                ~Done(listener_tasks[i]) => listener_tasks'[i].cancel
    /\ ((DisconnectCall \/ DisconnectGathered) /\ redis_client' = "closed" /\ dc'.pc = "idle")
            => \A i \in 1..Len(listener_tasks') : Done(listener_tasks'[i])

\* C20: disconnect() cancels every listener task that has not ended, and at the
\* step on which it closes the client no listener task is left that has not ended,
\* whatever subscribe calls are made while it waits for the cancelled tasks.
C20_ClosesAfterListeners == [][C20_Step]_vars

-----------------------------------------------------------------------------
(* Properties of send_message and of the envelope *)

C14_Sends(r, ty, pl, c, pr) ==
    LET id == wire'.envelope.id
        expected == IF r = None THEN "broadcast" ELSE "agent_" \o r
    IN  /\ wire'.returned = id
        /\ expected \in published'[id]
        /\ published'[id] \ published[id] \subseteq {expected}
        /\ \A a \in Agents : expected # "agent_" \o a \o "_responses"
        /\ \A m \in MsgIds \ {id} : published'[m] = published[m]
        /\ wire'.envelope.sender_id = "a"
        /\ wire'.envelope.recipient_id = r
        /\ wire'.envelope.type = ty
        /\ wire'.envelope.payload = pl
        /\ wire'.envelope.correlation_id = c
        /\ wire'.envelope.priority = pr

C14_Step ==
    \A r \in {None, "b"}, ty \in MessageTypes, pl \in Payloads,
       c \in {None, CorrelationId(0)}, pr \in Priorities :
        (SendMessage("a", r, ty, pl, c, pr) /\ last' = "ok") => C14_Sends(r, ty, pl, c, pr)

C15_Step ==
    \A r \in {None, "b"} :
        (SendMessage("a", r, "TASK_UPDATE", PyInt(50), None, 5) /\ last' = "ok") =>
            published[wire'.envelope.id] = {}

\* C15: the id of an envelope that send_message creates and publishes is the id of
\* no envelope published before it, also when both are created at the same clock
\* reading.
C15_IdsUnique == [][C15_Step]_vars

\* C16: the envelope a listener decodes from the wire form that publish made of an
\* envelope has the same value in every field.
C16_RoundTrip ==
    wire.decoded.id # None => wire.decoded = wire.envelope

-----------------------------------------------------------------------------
(* Properties of the listener tasks *)

\* a listener task that has not finished and whose cancellation was not requested
Live(t) == ~Done(t) /\ ~t.cancel /\ t.st # "unsubscribing"

LiveTasks(channel) ==
    {i \in 1..Len(listener_tasks) :
        listener_tasks[i].channel = channel /\ Live(listener_tasks[i])}

\* C17: on a connected bus a channel has a live listener task exactly when its
\* list of subscribed handlers is not empty.
C17_ListenerIffSubscribers ==
    redis_client = "open" =>
        \A c \in Channels : (LiveTasks(c) # {}) <=> (subscriptions[c] # <<>>)

\* C18: on a connected bus no channel has more than one live listener task.
C18_OneListenerPerChannel ==
    redis_client = "open" =>
        \A c \in Channels : Cardinality(LiveTasks(c)) <= 1

C19_Step ==
    \A c \in BusChannels, h \in BusHandlers :
        (Unsubscribe(c, h) /\ InList(subscriptions[c], h) /\ redis_client = "open") =>
            IF subscriptions'[c] = <<>>
            THEN \A i \in 1..Len(listener_tasks) :
                    IF listener_tasks[i].channel = c
                    THEN Done(listener_tasks[i]) \/ listener_tasks'[i].cancel
                    ELSE listener_tasks'[i] = listener_tasks[i]
            ELSE listener_tasks' = listener_tasks

\* C19: on a connected bus an unsubscribe that removes the last handler of a channel cancels that
\* channel's listener task and changes no task of another channel; one that
\* removes a handler that is not the last changes no task.
C19_LastUnsubscribeCancels == [][C19_Step]_vars

\* C21: a listener task that has ended has left no subscription of its channel at
\* the server, however it was cancelled.
C21_ListenerUnsubscribes ==
    \A i \in 1..Len(listener_tasks) :
        Done(listener_tasks[i]) => ~listener_tasks[i].sub

\* the envelope whose fan-out listener task i is waiting for
InFlight(i) == listener_tasks[i].st = "gathering"

\* C22: on a connected bus the fan-outs in progress on one channel are all of the
\* same envelope: none for a later envelope has started while one for an earlier
\* envelope has not finished.
C22_OneEnvelopeInFlight ==
    redis_client = "open" =>
        \A i, j \in 1..Len(listener_tasks) :
            (InFlight(i) /\ InFlight(j) /\ listener_tasks[i].channel = listener_tasks[j].channel)
                => listener_tasks[i].cur.id = listener_tasks[j].cur.id

\* C23: on a connected bus, when two envelopes were published to the same channel
\* one after the other, each reaching a listener's connection, a handler subscribed
\* to the channel from the first publication on that has been invoked with the
\* later envelope has been invoked with the earlier one.
C23_TransportOrder ==
    redis_client = "open" =>
        \A a, b \in 1..NumUserMsgs, h \in UserHandlers :
            (/\ a < b
             /\ published[UserMsgId(a)] # {}
             /\ published[UserMsgId(a)] = published[UserMsgId(b)]
             /\ {UserMsgId(a), UserMsgId(b)} \subseteq heard
             /\ h \in stable[UserMsgId(a)] \cap stable[UserMsgId(b)]
             /\ invoked[h][UserMsgId(b)] > 0)
                => invoked[h][UserMsgId(a)] > 0

C24_Step ==
    \A i \in 1..Len(listener_tasks) :
        (ListenerReceive(i) /\ ~Decodable(Head(listener_tasks[i].inbox))) =>
            /\ listener_tasks'[i].st = "listening"
            /\ listener_tasks'[i].sub
            /\ listener_tasks'[i].inbox = Tail(listener_tasks[i].inbox)
            /\ listener_tasks'[i].pend = {}
            /\ invoked' = invoked
            /\ published' = published
            /\ last' = last

\* a valid envelope that reached the listener and is nowhere in flight any more has
\* been handed to every handler subscribed since its publication
C24_Delivers ==
    \A m \in UserMsgIds, h \in UserHandlers :
        (m \in heard /\ h \in stable[m] /\ Settled(m)) => invoked[h][m] >= 1

-----------------------------------------------------------------------------
(* Properties of _handle_message_safely *)

\* what the run of handler task hp in listener task i may publish: the response, to
\* the response channel of the envelope's sender, when a replying handler got an
\* envelope that has a sender
C25_Handled(i, hp) ==
    LET m == listener_tasks[i].cur
        replies == hp[2] = UserObject /\ HandlerKind(hp[1]) = "reply" /\ m.sender_id # None
        expected == "agent_" \o m.sender_id \o "_responses"
        grown(j) == Len(listener_tasks'[j].inbox) - Len(listener_tasks[j].inbox)
    IN  /\ \A id \in MsgIds :
                published'[id] \ published[id] \subseteq
                    IF replies /\ id = MessageId(clock) THEN {expected} ELSE {}
        /\ \A j \in 1..Len(listener_tasks) :
                /\ grown(j) \in {0, 1}
                /\ grown(j) = 1 =>
                        replies /\ listener_tasks[j].channel = expected
                           /\ listener_tasks'[j].inbox =
                                Append(listener_tasks[j].inbox, Encode(Response(hp[1], m)))
        /\ (replies /\ redis_client = "open") =>
                /\ expected \in published'[MessageId(clock)]
                /\ \A j \in 1..Len(listener_tasks) :
                        (listener_tasks[j].channel = expected /\ Attached(listener_tasks[j]))
                            => grown(j) = 1
        /\ listener_tasks'[i].st = "gathering"
        /\ listener_tasks'[i].pend = listener_tasks[i].pend \ {hp}
        /\ last' = last

C25_Step ==
    \A i \in 1..Len(listener_tasks) :
        \A hp \in listener_tasks[i].pend : HandlerRun(i, hp) => C25_Handled(i, hp)

\* C25: a handler run publishes at most one payload, and only the handler's
\* response to the channel agent_<sender_id>_responses of the envelope's sender; it
\* publishes it when the store is reachable; it publishes nothing when the handler
\* returns nothing or the envelope has no sender; and whether the publication
\* succeeds or fails the listener goes on with its fan-out.
C25_ResponsePublished == [][C25_Step]_vars

\* h3's response to m1 has reached the listener of its sender's response channel
C25_Witness ==
    /\ invoked["h3"][UserMsgId(1)] = 1
    /\ \E t \in Now : published[MessageId(t)] = {ResponseChannel("a")}
    /\ \E j \in 1..Len(listener_tasks) :
            /\ listener_tasks[j].channel = ResponseChannel("a")
            /\ listener_tasks[j].inbox # <<>>

-----------------------------------------------------------------------------
(* Properties of concurrent request_response calls *)

\* a call that returned an envelope returned one that carries its correlation_id
C26_OwnReply ==
    \A p \in Callers :
        (rr[p].pc = "done" /\ rr[p].result # NoMsg)
            => rr[p].result.correlation_id = rr[p].correlation_id

\* a call that waits has its own ResponseHandler registered and subscribed
C26_HandlerKept ==
    \A p \in Callers :
        rr[p].pc = "waiting" =>
            /\ handlers[ResponseHandlerId(rr[p].correlation_id)] = rr[p].obj
            /\ InList(subscriptions[ResponseChannel(Sender(p))],
                      ResponseHandlerId(rr[p].correlation_id))

\* C26: with two request_response calls of one sender in flight, a call returns only
\* an envelope that carries its own correlation_id, and while a call waits its own
\* ResponseHandler stays registered and subscribed to the response channel, whatever
\* the other call does.
C26_ConcurrentCalls == C26_OwnReply /\ C26_HandlerKept

-----------------------------------------------------------------------------
(* Properties of unregister_handler's deferred unsubscribe *)

C27_Step ==
    (RunUnsubscribeTask /\ Head(unsub_tasks)[3]) =>
        InList(subscriptions'[Head(unsub_tasks)[1]], Head(unsub_tasks)[2])

\* C27: a handler that subscribe(C, h) has subscribed to C after the last
\* unsubscribe(C, h) and unregister_handler(h) calls is not removed from C's list by
\* a task that the earlier unregister_handler left behind.
C27_SubscriptionKept == [][C27_Step]_vars

-----------------------------------------------------------------------------
(* CrewCoordinator: execute_workflow, list_active_workflows, cancel_workflow *)

\* The status execute_workflow gives the WorkflowResult it creates
InitialStatus == "pending"

\* The call executes the workflow it started, whose entry is still its own object
Executing(p, workflow_id) ==
    /\ ew[p].pc = "executing"
    /\ ew[p].workflow_id = workflow_id
    /\ active_workflows[workflow_id] = p

\* [w for w in self.active_workflows.values() if w.status == WorkflowStatus.RUNNING]
RunningWorkflows ==
    {p \in WorkflowCalls :
        /\ \E w \in WorkflowIds : active_workflows[w] = p
        /\ workflow_results[p] = "running"}

\* execute_workflow up to its await of the workflow handler: the id is read from
\* the clock, the WorkflowResult is created and stored under it
ExecuteWorkflowStart(p) ==
    /\ ew[p].pc = "idle"
    /\ LET workflow_id == WorkflowId(clock)
       IN /\ workflow_results' = [workflow_results EXCEPT ![p] = InitialStatus]
          /\ active_workflows' = [active_workflows EXCEPT ![workflow_id] = p]
          /\ ew' = [ew EXCEPT ![p] = [pc |-> "executing", workflow_id |-> workflow_id]]
    /\ UNCHANGED <<message_bus, clock, seen, manager, agent>>

\* the handler has returned (ok) or raised an Exception; execute_workflow returns
\* its workflow_result
ExecuteWorkflowEnd(p) ==
    /\ ew[p].pc = "executing"
    /\ \E ok \in BOOLEAN :
        workflow_results' = [workflow_results EXCEPT ![p] = IF ok THEN "completed" ELSE "failed"]
    /\ ew' = [ew EXCEPT ![p].pc = "returned"]
    /\ UNCHANGED <<message_bus, clock, active_workflows, seen, manager, agent>>

ListActiveWorkflows ==
    /\ seen' = [seen EXCEPT !.active = RunningWorkflows]
    /\ UNCHANGED <<message_bus, clock, active_workflows, workflow_results, ew, manager, agent>>

CancelWorkflow(workflow_id) ==
    LET p == active_workflows[workflow_id]
        found == p # 0 /\ workflow_results[p] = "running"
    IN
    /\ workflow_results' = IF found THEN [workflow_results EXCEPT ![p] = "cancelled"]
                           ELSE workflow_results
    /\ seen' = [seen EXCEPT !.workflow_id = workflow_id,
                            !.executing = \E q \in WorkflowCalls : Executing(q, workflow_id),
                            !.result = found]
    /\ UNCHANGED <<message_bus, clock, active_workflows, ew, manager, agent>>

NextWorkflow ==
    \/ Tick
    \/ \E p \in WorkflowCalls : ExecuteWorkflowStart(p)
    \/ \E p \in WorkflowCalls : ExecuteWorkflowEnd(p)
    \/ ListActiveWorkflows
    \/ \E w \in WorkflowIds : CancelWorkflow(w)

SpecWorkflow == Init /\ [][NextWorkflow]_vars

\* the workflows in execution are RUNNING and listed
C28_Executing ==
    \A p \in WorkflowCalls :
        ew[p].pc = "executing" =>
            /\ workflow_results[p] = "running"
            /\ active_workflows[ew[p].workflow_id] = p => p \in RunningWorkflows

\* cancel_workflow on a workflow in execution returned True
C28_Cancelled == seen.executing => seen.result

\* the workflows execute_workflow has returned are COMPLETED or FAILED
C28_Returned ==
    \A p \in WorkflowCalls :
        ew[p].pc = "returned" => workflow_results[p] \in {"completed", "failed"}

\* C28: a workflow that execute_workflow has started and not finished has status
\* RUNNING, is among the workflows list_active_workflows returns, and
\* cancel_workflow on it returns True; a workflow execute_workflow has returned
\* has status COMPLETED or FAILED.
C28_WorkflowStatus == C28_Executing /\ C28_Cancelled /\ C28_Returned

-----------------------------------------------------------------------------
(* ConnectionManager: connect, disconnect, subscribe_client, unsubscribe_client, *)
(* broadcast                                                                     *)

\* the channel lists the endpoint passes to subscribe_client and unsubscribe_client
ChannelLists == {<<c>> : c \in WsChannels}

Elements(s) == {s[i] : i \in 1..Len(s)}

RECURSIVE RemoveEach(_, _)
\* for x in xs: if x in s: s.remove(x)
RemoveEach(s, xs) ==
    IF xs = <<>> THEN s ELSE RemoveEach(Remove(s, Head(xs)), Tail(xs))

\* what unsubscribe_client leaves of the socket's list
unsubscribe_client(list, channels) == RemoveEach(list, channels)

\* channel in self.client_subscriptions.get(connection, []) or channel == "general"
SubscribedTo(ws, channel) ==
    InList(client_subscriptions[ws].list, channel) \/ channel = General

\* await websocket.accept(); the socket is appended and given an empty list
ManagerConnect(ws) ==
    /\ client_state[ws] = "connecting"
    /\ client_state' = [client_state EXCEPT ![ws] = "connected"]
    /\ active_connections' = Append(active_connections, ws)
    /\ client_subscriptions' = [client_subscriptions EXCEPT ![ws] = SubscriptionList(<<>>)]
    /\ UNCHANGED <<message_bus, clock, coordinator, agent, bc, sent, unsub>>

\* the peer closes the socket
ClientCloses(ws) ==
    /\ client_state[ws] = "connected"
    /\ client_state' = [client_state EXCEPT ![ws] = "disconnected"]
    /\ UNCHANGED <<message_bus, clock, coordinator, agent, active_connections,
                   client_subscriptions, bc, sent, unsub>>

ManagerDisconnect(ws) ==
    /\ client_state[ws] # "connecting"
    /\ active_connections' = Remove(active_connections, ws)
    /\ client_subscriptions' = [client_subscriptions EXCEPT ![ws] = NoKey]
    /\ UNCHANGED <<message_bus, clock, coordinator, agent, client_state, bc, sent, unsub>>

SubscribeClient(ws, channels) ==
    /\ Len(client_subscriptions[ws].list) + Len(channels) <= MaxSubscribed
    /\ client_subscriptions' =
        IF client_subscriptions[ws].key
        THEN [client_subscriptions EXCEPT ![ws].list = @ \o channels]
        ELSE client_subscriptions
    /\ unsub' = [unsub EXCEPT ![ws] = @ \ Elements(channels)]
    /\ UNCHANGED <<message_bus, clock, coordinator, agent, active_connections, client_state,
                   bc, sent>>

UnsubscribeClient(ws, channels) ==
    /\ client_subscriptions' =
        IF client_subscriptions[ws].key
        THEN [client_subscriptions EXCEPT ![ws].list = unsubscribe_client(@, channels)]
        ELSE client_subscriptions
    /\ unsub' = [unsub EXCEPT ![ws] = @ \cup Elements(channels)]
    /\ UNCHANGED <<message_bus, clock, coordinator, agent, active_connections, client_state,
                   bc, sent>>

\* broadcast is called: disconnected = [], the iteration over active_connections
\* begins
BroadcastStart(channel) ==
    /\ bc.pc = "idle"
    /\ bc' = [pc |-> "loop", channel |-> channel, i |-> 1, disconnected |-> <<>>]
    /\ sent' = {}
    /\ UNCHANGED <<message_bus, clock, coordinator, agent, active_connections,
                   client_subscriptions, client_state, unsub>>

\* the connection at position k of the list is sent the message
Sends(k, channel) ==
    /\ k \in 1..Len(active_connections)
    /\ SubscribedTo(active_connections[k], channel)
    /\ client_state[active_connections[k]] = "connected"

\* The iteration goes on from position bc.i to the next await of send_text, which
\* returns or raises, or to the end of the list, where the connections noted in
\* disconnected are disconnected and broadcast returns.  The subscribed connections
\* passed on the way that are not CONNECTED are noted in disconnected.
BroadcastStep ==
    /\ bc.pc = "loop"
    /\ LET n == Len(active_connections)
           end == IF bc.i > n THEN bc.i ELSE n + 1
           j == CHOOSE k \in bc.i..end :
                    /\ k = end \/ Sends(k, bc.channel)
                    /\ \A l \in bc.i..(k - 1) : ~Sends(l, bc.channel)
           passed == SelectSeq(SubSeq(active_connections, bc.i, j - 1),
                               LAMBDA ws : SubscribedTo(ws, bc.channel))
           disconnected == bc.disconnected \o passed
       IN IF j = end
          THEN /\ active_connections' = RemoveEach(active_connections, disconnected)
               /\ client_subscriptions' =
                    [ws \in Sockets |-> IF ws \in Elements(disconnected) THEN NoKey
                                        ELSE client_subscriptions[ws]]
               /\ bc' = NoBroadcast
               /\ sent' = sent
          ELSE \E ok \in BOOLEAN :
                LET connection == active_connections[j]
                IN /\ sent' = IF ok THEN sent \cup {<<connection, bc.channel>>} ELSE sent
                   /\ bc' = [bc EXCEPT !.i = j + 1,
                                       !.disconnected =
                                            IF ok THEN disconnected
                                            ELSE Append(disconnected, connection)]
                   /\ UNCHANGED <<active_connections, client_subscriptions>>
    /\ UNCHANGED <<message_bus, clock, coordinator, agent, client_state, unsub>>

NextManager ==
    \/ \E ws \in Sockets : ManagerConnect(ws)
    \/ \E ws \in Sockets : ClientCloses(ws)
    \/ \E ws \in Sockets : ManagerDisconnect(ws)
    \/ \E ws \in Sockets, channels \in ChannelLists : SubscribeClient(ws, channels)
    \/ \E ws \in Sockets, channels \in ChannelLists : UnsubscribeClient(ws, channels)
    \/ \E channel \in WsChannels : BroadcastStart(channel)
    \/ BroadcastStep

SpecManager == Init /\ [][NextManager]_vars

C29_Step ==
    \A ws \in Sockets, c \in WsChannels \ {General} :
        (<<ws, c>> \in sent' /\ <<ws, c>> \notin sent) => c \notin unsub[ws]

\* C29: a broadcast on a channel other than "general" sends nothing to a socket
\* for which unsubscribe_client(ws, [c]) has returned with no subscribe_client(ws,
\* [c]) after it, however often the socket was subscribed to c before.
C29_UnsubscribedGetsNothing == [][C29_Step]_vars

-----------------------------------------------------------------------------
(* BaseMultiAgent: execute_task, get_status *)

\* how the await of process_task ends: it returns a value or raises an Exception
Outcomes == {"returns", "raises"}

\* completed_tasks kept whole
WholeHistory(tasks) == tasks

\* if len(self.completed_tasks) > 100: self.completed_tasks = self.completed_tasks[-50:]
History(tasks) ==
    IF Len(tasks) > HistoryLimit
    THEN SubSeq(tasks, Len(tasks) - HistoryKeep + 1, Len(tasks))
    ELSE tasks

\* the status and the counter of the try block and of the except block
StatusOf(outcome) == IF outcome = "returns" THEN "completed" ELSE "failed"

Counted(m, outcome) ==
    IF outcome = "returns" THEN [m EXCEPT !.tasks_completed = @ + 1]
    ELSE [m EXCEPT !.tasks_failed = @ + 1]

\* get_status: "busy" if current_tasks else "idle", the number of current tasks,
\* the metrics
get_status ==
    [status |-> IF \E t \in TaskIds : current_tasks[t] # 0 THEN "busy" ELSE "idle",
     current_tasks |-> Cardinality({t \in TaskIds : current_tasks[t] # 0}),
     metrics |-> metrics]

\* The agents that have done 0, 99 or 100 tasks, all completed, since construction
HistoryStarts == {0, HistoryLimit - 1, HistoryLimit}

InitHistory ==
    /\ InitBus /\ wire = NoWire
    /\ InitCoordinator /\ InitManager
    /\ current_tasks = [t \in TaskIds |-> 0]
    /\ \E done \in HistoryStarts :
        /\ completed_tasks = [i \in 1..done |-> TaskResult("t1", "completed", 0)]
        /\ metrics = [tasks_completed |-> done, tasks_failed |-> 0]
    /\ et = [p \in TaskCalls |-> NoTaskCall]
    /\ execs = 0

\* execute_task up to its await of process_task: the TaskResult is created with
\* status "running" and stored in current_tasks
ExecuteTaskStart(p, task_id) ==
    /\ et[p].pc \in {"idle", "returned"}
    /\ execs < MaxExec
    /\ execs' = execs + 1
    /\ LET task_result == TaskResult(task_id, "running", execs + 1)
       IN /\ current_tasks' = [current_tasks EXCEPT ![task_id] = task_result.n]
          /\ et' = [et EXCEPT ![p] = [pc |-> "processing", task_result |-> task_result,
                                      raised |-> FALSE]]
    /\ UNCHANGED <<message_bus, clock, coordinator, manager, completed_tasks, metrics>>

\* process_task has ended: the try or the except block sets the status and counts,
\* the finally block moves the task to completed_tasks, execute_task returns
ExecuteTaskEnd(p, outcome) ==
    /\ et[p].pc = "processing"
    /\ LET task_result == [et[p].task_result EXCEPT !.status = StatusOf(outcome)]
       IN /\ metrics' = Counted(metrics, outcome)
          /\ current_tasks' = [current_tasks EXCEPT ![task_result.task_id] = 0]
          /\ completed_tasks' = History(Append(completed_tasks, task_result))
          /\ et' = [et EXCEPT ![p] = [pc |-> "returned", task_result |-> task_result,
                                      raised |-> FALSE]]
    /\ UNCHANGED <<message_bus, clock, coordinator, manager, execs>>

NextAgent ==
    \/ \E p \in TaskCalls, task_id \in TaskIds : ExecuteTaskStart(p, task_id)
    \/ \E p \in TaskCalls, outcome \in Outcomes : ExecuteTaskEnd(p, outcome)

SpecAgent == InitHistory /\ [][NextAgent]_vars

\* the step on which the execute_task call p returns
TaskReturns(p) == et[p].pc = "processing" /\ et'[p].pc = "returned"

C30_Step ==
    \A p \in TaskCalls :
        TaskReturns(p) =>
            /\ ~et'[p].raised
            /\ et'[p].task_result.status \in {"completed", "failed"}
            /\ current_tasks'[et'[p].task_result.task_id] = 0
            /\ completed_tasks' # <<>>
            /\ completed_tasks'[Len(completed_tasks')] = et'[p].task_result
            /\ \/ /\ metrics'.tasks_completed = metrics.tasks_completed + 1
                  /\ metrics'.tasks_failed = metrics.tasks_failed
               \/ /\ metrics'.tasks_completed = metrics.tasks_completed
                  /\ metrics'.tasks_failed = metrics.tasks_failed + 1

C30_Bounded == Len(completed_tasks) <= HistoryLimit

====
